---- MODULE Spec2Model ----
(***************************************************************************)
(* Model of scripts/tracking_pid_node.py: the PID regulator (class PID)    *)
(* and the waypoint-tracking controller (class TrackingPIDWQueue).         *)
(*                                                                         *)
(* Fixed-point units.  The source computes in floats; the model computes   *)
(* on an integer grid:                                                     *)
(*   positions            decimetres (0.1 m)     robot_radius 0.2  ->   2  *)
(*   angles, velocities,  hundredths (0.01)      delta 0.01        ->   1  *)
(*   errors, outputs                             delta 0.05        ->   5  *)
(*                                               max_output 1.0    -> 100  *)
(*   gains kp, ki, kd     plain integers         kp 1.0            ->   1  *)
(*   time                 whole seconds                                    *)
(***************************************************************************)
EXTENDS Integers, Sequences, FiniteSets, TLC

VARIABLES
    \* ---- TrackingPIDWQueue attributes ----
    need_waypoint,      \* self.need_waypoint.data
    odom,               \* self.odom[0..4]
    waypoint,           \* self.waypoint[0..4]
    states,             \* self.states (deque of the remaining waypoints)
    i,                  \* self.i
    twist,              \* self.twist (linear.x, angular.z)
    prev_vel,           \* self.prev_linear_vel, self.prev_angular_vel
    ctl,                \* angular_tolerance, robot_radius, rotate_lin_vel, verbose
    pid_angular,        \* self.pid_angular
    pid_linear,         \* self.pid_linear
    \* ---- environment ----
    cmd_vel,            \* last message published on /cmd_vel (<<>> = none yet)
    shutdown,           \* rospy shutdown has run the on_shutdown hook
    cycles,             \* number of control() runs so far (capped by MaxCycles)
    ev,                 \* observation of the last handler that ran
    hist,               \* the list last received and the entries popped from
                        \* it by get_new_waypoint since
    thr,                \* position and locals of the two subscriber threads
                        \* when the handlers are run statement by statement
    \* ---- a regulator on its own (class PID driven directly) ----
    reg,                \* a PID instance
    regev               \* observation of the last call made on reg

vars == << need_waypoint, odom, waypoint, states, i, twist, prev_vel, ctl,
           pid_angular, pid_linear, cmd_vel, shutdown, cycles, ev, hist, thr,
           reg, regev >>

ctlvars == << need_waypoint, odom, waypoint, states, i, twist, prev_vel, ctl,
              pid_angular, pid_linear, cmd_vel, shutdown, cycles, ev, hist,
              thr >>

regvars == << reg, regev >>

----------------------------------------------------------------------------
(* Bounds of the model *)

\* longest waypoint list the planner sends
MaxLen == 2

\* control() runs explored in one behaviour
MaxCycles == 2

\* clock readings rospy.Time.now() can return (seconds); a reading may be
\* equal to or lower than the previous one (simulated time)
Times == {0, 1, 2}

\* the clock readings the controller node sees
NodeTimes == {0, 1}

----------------------------------------------------------------------------
(* numpy helpers *)

Abs(x) == IF x < 0 THEN -x ELSE x

Min(a, b) == IF a < b THEN a ELSE b

Max(a, b) == IF a > b THEN a ELSE b

\* np.clip(x, lo, hi) = minimum(maximum(x, lo), hi); for lo > hi it yields hi
Clip(x, lo, hi) == Min(Max(x, lo), hi)

\* a / b for b > 0, rounded towards zero onto the grid
Div(a, b) == IF a >= 0 THEN a \div b ELSE -((-a) \div b)

\* np.arctan2(y, x) in hundredths of a radian, on the grid -3..3 x -3..3
Atan2Table ==
    <<-3,-3>> :> -236 @@ <<-3,-2>> :> -216 @@ <<-3,-1>> :> -189 @@ <<-3,0>> :> -157 @@ <<-3,1>> :> -125 @@ <<-3,2>> :> -98 @@ <<-3,3>> :> -79 @@
    <<-2,-3>> :> -255 @@ <<-2,-2>> :> -236 @@ <<-2,-1>> :> -203 @@ <<-2,0>> :> -157 @@ <<-2,1>> :> -111 @@ <<-2,2>> :> -79 @@ <<-2,3>> :> -59 @@
    <<-1,-3>> :> -282 @@ <<-1,-2>> :> -268 @@ <<-1,-1>> :> -236 @@ <<-1,0>> :> -157 @@ <<-1,1>> :> -79 @@ <<-1,2>> :> -46 @@ <<-1,3>> :> -32 @@
    <<0,-3>> :> 314 @@ <<0,-2>> :> 314 @@ <<0,-1>> :> 314 @@ <<0,0>> :> 0 @@ <<0,1>> :> 0 @@ <<0,2>> :> 0 @@ <<0,3>> :> 0 @@
    <<1,-3>> :> 282 @@ <<1,-2>> :> 268 @@ <<1,-1>> :> 236 @@ <<1,0>> :> 157 @@ <<1,1>> :> 79 @@ <<1,2>> :> 46 @@ <<1,3>> :> 32 @@
    <<2,-3>> :> 255 @@ <<2,-2>> :> 236 @@ <<2,-1>> :> 203 @@ <<2,0>> :> 157 @@ <<2,1>> :> 111 @@ <<2,2>> :> 79 @@ <<2,3>> :> 59 @@
    <<3,-3>> :> 236 @@ <<3,-2>> :> 216 @@ <<3,-1>> :> 189 @@ <<3,0>> :> 157 @@ <<3,1>> :> 125 @@ <<3,2>> :> 98 @@ <<3,3>> :> 79

arctan2(y, x) == Atan2Table[<<y, x>>]

\* np.tanh(x) in hundredths, x in decimetres
TanhTable ==
    -3 :> -29 @@ -2 :> -20 @@ -1 :> -10 @@ 0 :> 0 @@ 1 :> 10 @@ 2 :> 20 @@ 3 :> 29

tanh(x) == TanhTable[x]

\* np.cos / np.sin of a yaw that is a multiple of a quarter turn
cos(yaw) == CASE yaw = 0 -> 1 [] yaw = 157 -> 0 [] yaw = 314 -> -1 [] yaw = -157 -> 0

sin(yaw) == CASE yaw = 0 -> 0 [] yaw = 157 -> 1 [] yaw = 314 -> 0 [] yaw = -157 -> -1

\* np.hypot(dy, dx) < r, for r >= 0
HypotLess(dy, dx, r) == dy * dy + dx * dx < r * r

\* euler_from_quaternion(q)[2] for the four axis-aligned headings
\* (q = (0, 0, sin(yaw/2), cos(yaw/2)), named by compass point)
euler_yaw(q) == CASE q = "E" -> 0 [] q = "N" -> 157 [] q = "W" -> 314 [] q = "S" -> -157

----------------------------------------------------------------------------
(* class PID *)

\* PID.previous_error = None
None == << >>

\* PID.reset
reset(p, now) ==
    [p EXCEPT !.integral = 0,
              !.previous_output = 0,
              !.previous_error = None,
              !.previous_time = now]

\* PID.__init__
PID(kp, kd, ki, min_output, max_output, delta, min_integral, max_integral, now) ==
    reset([kp |-> kp, kd |-> kd, ki |-> ki,
           min_output |-> min_output, max_output |-> max_output,
           delta |-> delta,
           min_integral |-> min_integral, max_integral |-> max_integral,
           integral |-> 0, previous_output |-> 0,
           previous_error |-> None, previous_time |-> now], now)

\* Derivative that takes a time step dt <= 0 for one tick
Derivative_StepFloored(p, error, dt) ==
    LET perr == IF p.previous_error = None THEN error ELSE p.previous_error[1]
    IN  IF dt > 0 THEN Div(p.kd * (error - perr), dt) ELSE p.kd * (error - perr)

\* Derivative with the gain kd left out
Derivative_GainDropped(p, error, dt) ==
    LET perr == IF p.previous_error = None THEN error ELSE p.previous_error[1]
    IN  IF dt > 0 THEN Div(error - perr, dt) ELSE 0

\* the derivative term of PID.update, for time step dt
Derivative(p, error, dt) ==
    LET perr == IF p.previous_error = None THEN error ELSE p.previous_error[1]
    IN  IF dt > 0 THEN Div(p.kd * (error - perr), dt) ELSE 0

\* ClampIntegral with the clamp left out
ClampIntegral_Unclamped(p, x) == x

\* the integral clamp of PID.update
ClampIntegral(p, x) == Clip(x, p.max_integral, p.max_integral)

\* ClampOutput with the clamp left out
ClampOutput_Unclamped(p, x) == x

\* the output clamp of PID.update
ClampOutput(p, x) == Clip(x, p.min_output, p.max_output)

\* SlewLimit with the limit left out
SlewLimit_Unlimited(p, x) == x

\* the slew limit of PID.update
SlewLimit(p, x) == Clip(x, p.previous_output - p.delta, p.previous_output + p.delta)

\* PID.update: the regulator after the call; the value returned is its
\* previous_output
update(p, error, current_time) ==
    LET dt           == current_time - p.previous_time
        proportional == p.kp * error
        derivative   == Derivative(p, error, dt)
        integral1    == ClampIntegral(p, p.integral + error * dt)
        integral     == p.ki * integral1
        output       == SlewLimit(p, ClampOutput(p, proportional + integral + derivative))
    IN  [p EXCEPT !.integral = integral1,
                  !.previous_error = << error >>,
                  !.previous_time = current_time,
                  !.previous_output = output]

\* the attributes of a regulator that update() and reset() write
PIDState(p) == << p.integral, p.previous_error, p.previous_output, p.previous_time >>

\* the attributes of a regulator that configure it
PIDConfig(p) == << p.kp, p.ki, p.kd, p.min_output, p.max_output, p.delta,
                   p.min_integral, p.max_integral >>

----------------------------------------------------------------------------
(* class TrackingPIDWQueue *)

\* the Odometry messages the pose source sends: position, heading
\* quaternion (by compass point), twist
OdomMsgs == [x : {1, 3}, y : {0}, q : {"E", "N"}, vx : {0}, wz : {0}]

\* the entries of a states message: x, y, yaw, ux, utheta
StateMsgs == { [x |-> 0, y |-> 0, yaw |-> 0,   ux |-> 0,  utheta |-> 0],
               [x |-> 3, y |-> 0, yaw |-> 157, ux |-> 10, utheta |-> 5] }

\* the lists a states message can carry, the empty list included
SeqsUpTo(S, n) == UNION { [1..k -> S] : k \in 0..n }

StatesMsgs == SeqsUpTo(StateMsgs, MaxLen)

\* what np.empty(5) can hold: any five numbers
Garbage == { << m.x, m.y, euler_yaw(m.q), m.vx, m.wz >> : m \in OdomMsgs }

\* the dynamic_reconfigure configuration of the shipped defaults
\* (the values __init__ gives the attributes)
DefaultConfig ==
    [angular_tolerance |-> 20, rotate_lin_vel |-> 20,
     angular_kp |-> 1, angular_ki |-> 0, angular_kd |-> 0,
     angular_min_integral |-> 0, angular_max_integral |-> 0,
     angular_min_output |-> -100, angular_max_output |-> 100,
     linear_kp |-> 1, linear_ki |-> 0, linear_kd |-> 0,
     linear_min_integral |-> 0, linear_max_integral |-> 0,
     linear_min_output |-> -50, linear_max_output |-> 50,
     \* supplied by the caller, never read by param_callback
     robot_radius |-> 2, angular_delta |-> 1, linear_delta |-> 5]

\* the configurations the reconfigure channel delivers in the model
Configs ==
    { \* all three terms active, tight limits, wide heading tolerance, an
      \* arrival radius and slew deltas other than the constructor's
      [DefaultConfig EXCEPT !.robot_radius = 4,
                            !.angular_delta = 2, !.linear_delta = 3,
                            !.angular_tolerance = 200, !.rotate_lin_vel = 10,
                            !.angular_kp = 2, !.angular_ki = 1, !.angular_kd = 1,
                            !.angular_min_integral = -3, !.angular_max_integral = 3,
                            !.angular_min_output = -2, !.angular_max_output = 2,
                            !.linear_kp = 2, !.linear_ki = 1, !.linear_kd = 1,
                            !.linear_min_integral = -3, !.linear_max_integral = 3,
                            !.linear_min_output = -10, !.linear_max_output = 10],
      \* inverted output limits on the angular axis, inverted integral
      \* limits on the linear axis
      [DefaultConfig EXCEPT !.angular_min_output = 2, !.angular_max_output = -2,
                            !.linear_ki = 1,
                            !.linear_min_integral = 3, !.linear_max_integral = -3] }

\* a configuration with an inverted limit pair on either axis
Inverted(c) ==
    \/ c.angular_min_output > c.angular_max_output
    \/ c.angular_min_integral > c.angular_max_integral
    \/ c.linear_min_output > c.linear_max_output
    \/ c.linear_min_integral > c.linear_max_integral

\* what the last handler did: which one ran, whether it ran control(),
\* whether it published, whether an exception left it, whether its
\* configuration had an inverted pair, the configuration param_callback was
\* handed
Event(op, ran, published, raised, inverted) ==
    [op |-> op, ran |-> ran, published |-> published, raised |-> raised,
     inverted |-> inverted, config |-> << >>]

\* a row of self.waypoint written from a states entry
WaypointOf(state) == << state.x, state.y, state.yaw, state.ux, state.utheta >>

\* the errors control() computes from the pose and the current waypoint
x_diff(wp, od) == wp[1] - od[1]

y_diff(wp, od) == wp[2] - od[2]

x_relative(wp, od) == cos(od[3]) * x_diff(wp, od) + sin(od[3]) * y_diff(wp, od)

y_relative(wp, od) == (-sin(od[3])) * x_diff(wp, od) + cos(od[3]) * y_diff(wp, od)

angular_error(wp, od) == arctan2(y_relative(wp, od), x_relative(wp, od))

linear_error(wp, od) == tanh(x_relative(wp, od))

\* Arrived with <= in place of <
Arrived_Inclusive(wp, od, radius) ==
    y_diff(wp, od) * y_diff(wp, od) + x_diff(wp, od) * x_diff(wp, od) <= radius * radius

\* the arrival test of control()
Arrived(wp, od, radius) == HypotLess(y_diff(wp, od), x_diff(wp, od), radius)

\* MustRotate with np.abs left out
MustRotate_Signed(err, tolerance) == err > tolerance

\* the heading test of control()
MustRotate(err, tolerance) == Abs(err) > tolerance

\* popleft that returns the first entry and leaves it in the deque
popleft_Peek(q) == [item |-> Head(q), rest |-> q]

\* deque.popleft() on a deque that is not empty: the entry returned and the
\* deque afterwards
popleft(q) == [item |-> Head(q), rest |-> Tail(q)]

\* no handler is in progress: both threads wait for a message
ThreadsIdle ==
    [pcS |-> "idle", msg |-> << >>, state |-> << >>,
     pcO |-> "idle", x_diff |-> 0, y_diff |-> 0, popped |-> << >>]

\* the state at the end of __init__'s attribute assignments; self.states and
\* self.i do not exist yet (shown as the empty deque and 0: nothing reads
\* them before states_callback has assigned them)
CtlInit ==
    /\ need_waypoint = TRUE
    /\ odom \in Garbage
    /\ waypoint = odom
    /\ states = << >>
    /\ i = 0
    /\ twist = [linear |-> 0, angular |-> 0]
    /\ prev_vel = [linear |-> 0, angular |-> 0]
    /\ ctl = [angular_tolerance |-> 20, robot_radius |-> 2,
              rotate_lin_vel |-> 20, verbose |-> TRUE]
    /\ \E now \in NodeTimes :
         /\ pid_angular = PID(1, 0, 0, -100, 100, 1, 0, 0, now)
         /\ pid_linear = PID(1, 0, 0, -50, 50, 5, 0, 0, now)
    /\ cmd_vel = << >>
    /\ shutdown = FALSE
    /\ cycles = 0
    /\ ev = Event("init", FALSE, FALSE, FALSE, FALSE)
    /\ hist = [lst |-> << >>, adv |-> 0]
    /\ thr = ThreadsIdle

\* ConfigureAngular that also resets the regulator
ConfigureAngular_Resetting(p, config) ==
    reset([p EXCEPT !.kp = config.angular_kp,
                    !.ki = config.angular_ki,
                    !.kd = config.angular_kd,
                    !.min_integral = config.angular_min_integral,
                    !.max_integral = config.angular_max_integral,
                    !.min_output = config.angular_min_output,
                    !.max_output = config.angular_max_output,
                    !.delta = 1], p.previous_time)

\* the assignments of param_callback to self.pid_angular
ConfigureAngular(p, config) ==
    [p EXCEPT !.kp = config.angular_kp,
              !.ki = config.angular_ki,
              !.kd = config.angular_kd,
              !.min_integral = config.angular_min_integral,
              !.max_integral = config.angular_max_integral,
              !.min_output = config.angular_min_output,
              !.max_output = config.angular_max_output,
              !.delta = 1]

\* the assignments of param_callback to self.pid_linear
ConfigureLinear(p, config) ==
    [p EXCEPT !.kp = config.linear_kp,
              !.ki = config.linear_ki,
              !.kd = config.linear_kd,
              !.min_integral = config.linear_min_integral,
              !.max_integral = config.linear_max_integral,
              !.min_output = config.linear_min_output,
              !.max_output = config.linear_max_output,
              !.delta = 5]

\* TrackingPIDWQueue.param_callback
param_callback(config) ==
    /\ ~shutdown
    /\ ctl' = [angular_tolerance |-> config.angular_tolerance,
               robot_radius |-> 2,
               rotate_lin_vel |-> config.rotate_lin_vel,
               verbose |-> FALSE]
    /\ pid_angular' = ConfigureAngular(pid_angular, config)
    /\ pid_linear' = ConfigureLinear(pid_linear, config)
    /\ ev' = [Event("param", FALSE, FALSE, FALSE, Inverted(config))
                 EXCEPT !.config = config]
    /\ UNCHANGED << need_waypoint, odom, waypoint, states, i, twist, prev_vel,
                    cmd_vel, shutdown, cycles, hist >>

\* stop that publishes self.twist without zeroing it
stop_Unzeroed ==
    /\ ~shutdown
    /\ cmd_vel' = << twist >>
    /\ shutdown' = TRUE
    /\ ev' = Event("stop", FALSE, TRUE, FALSE, FALSE)
    /\ UNCHANGED << need_waypoint, odom, waypoint, states, i, twist, prev_vel,
                    ctl, pid_angular, pid_linear, cycles, hist >>

\* TrackingPIDWQueue.stop, the on_shutdown hook
stop ==
    /\ ~shutdown
    /\ twist' = [linear |-> 0, angular |-> 0]
    /\ cmd_vel' = << twist' >>
    /\ shutdown' = TRUE
    /\ ev' = Event("stop", FALSE, TRUE, FALSE, FALSE)
    /\ UNCHANGED << need_waypoint, odom, waypoint, states, i, prev_vel, ctl,
                    pid_angular, pid_linear, cycles, hist >>

\* TrackingPIDWQueue.states_callback; popleft() of an empty deque raises
\* IndexError after self.i and self.states have been assigned
states_callback(msg) ==
    /\ ~shutdown
    /\ i' = 0
    /\ IF msg = << >>
       THEN /\ states' = << >>
            /\ ev' = Event("states", FALSE, FALSE, TRUE, FALSE)
            /\ UNCHANGED << waypoint, need_waypoint >>
       ELSE /\ states' = popleft(msg).rest
            /\ waypoint' = WaypointOf(popleft(msg).item)
            /\ need_waypoint' = FALSE
            /\ ev' = Event("states", FALSE, FALSE, FALSE, FALSE)
    /\ hist' = [lst |-> msg, adv |-> 0]
    /\ UNCHANGED << odom, twist, prev_vel, ctl, pid_angular, pid_linear,
                    cmd_vel, shutdown, cycles >>

\* the pose odom_callback stores from a message
OdomOf(msg) == << msg.x, msg.y, euler_yaw(msg.q), msg.vx, msg.wz >>

\* TrackingPIDWQueue.control with get_new_waypoint inlined, on the pose od
\* just stored; now is the clock reading of the two update() calls (they
\* follow each other within one call, far closer than the clock's grid).
\* popleft() of an empty deque raises IndexError out of control(): the
\* publish on the last line is not reached
control(od, now) ==
    LET aerr    == angular_error(waypoint, od)
        lerr    == linear_error(waypoint, od)
        pa      == update(pid_angular, aerr, now)
        pl      == update(pid_linear, lerr, now)
        lin     == IF MustRotate(aerr, ctl.angular_tolerance)
                   THEN ctl.rotate_lin_vel ELSE pl.previous_output
        arrived == Arrived(waypoint, od, ctl.robot_radius)
    IN  /\ pid_angular' = pa
        /\ pid_linear' = pl
        /\ prev_vel' = [linear |-> pl.previous_output, angular |-> pa.previous_output]
        /\ twist' = [linear |-> lin, angular |-> pa.previous_output]
        /\ IF arrived
           THEN \* get_new_waypoint
                /\ i' = i + 1
                /\ IF states = << >>
                   THEN /\ need_waypoint' = TRUE
                        /\ UNCHANGED << states, waypoint, cmd_vel, hist >>
                        /\ ev' = Event("odom", TRUE, FALSE, TRUE, FALSE)
                   ELSE /\ states' = popleft(states).rest
                        /\ waypoint' = WaypointOf(popleft(states).item)
                        /\ need_waypoint' = FALSE
                        /\ cmd_vel' = << twist' >>
                        /\ ev' = Event("odom", TRUE, TRUE, FALSE, FALSE)
                        /\ hist' = [hist EXCEPT !.adv = @ + 1]
           ELSE /\ cmd_vel' = << twist' >>
                /\ ev' = Event("odom", TRUE, TRUE, FALSE, FALSE)
                /\ UNCHANGED << need_waypoint, states, waypoint, i, hist >>

\* odom_callback that runs control() without looking at need_waypoint
odom_callback_Unguarded(msg) ==
    /\ ~shutdown
    /\ odom' = OdomOf(msg)
    /\ cycles < MaxCycles
    /\ cycles' = cycles + 1
    /\ \E now \in NodeTimes : control(odom', now)
    /\ UNCHANGED << ctl, shutdown >>

\* TrackingPIDWQueue.odom_callback
odom_callback(msg) ==
    /\ ~shutdown
    /\ odom' = OdomOf(msg)
    /\ IF need_waypoint
       THEN /\ ev' = Event("odom", FALSE, FALSE, FALSE, FALSE)
            /\ UNCHANGED << need_waypoint, waypoint, states, i, twist, prev_vel,
                            pid_angular, pid_linear, cmd_vel, cycles, hist >>
       ELSE /\ cycles < MaxCycles
            /\ cycles' = cycles + 1
            /\ \E now \in NodeTimes : control(odom', now)
    /\ UNCHANGED << ctl, shutdown >>

----------------------------------------------------------------------------
(* a regulator on its own: class PID driven by arbitrary calls *)

\* the errors a caller passes to update()
Errors == {-4, 0, 3}

\* the gains and limits a caller gives a regulator
RegConfigs ==
    [kp : {1}, ki : {0, 1}, kd : {0, 1},
     out : { << -3, 3 >>, << 1, 3 >>, << 2, -2 >> },
     int : { << 0, 0 >>, << -2, 2 >>, << 1, 2 >>, << 2, -2 >> },
     delta : {1, 2}]

\* what the last call on reg was; before: the value the update before the
\* last one returned (0 when there was none since construction or reset);
\* last: the value the last update returned; hold: the caller has started to
\* pass error 0 on every call; error, now: the arguments of the last update
RegEvent(op, before, last, hold) ==
    [op |-> op, before |-> before, last |-> last, hold |-> hold,
     error |-> 0, now |-> 0]

\* PID(...) constructed by a caller
RegInit ==
    /\ \E c \in RegConfigs, now \in Times :
         reg = PID(c.kp, c.kd, c.ki, c.out[1], c.out[2], c.delta,
                   c.int[1], c.int[2], now)
    /\ regev = RegEvent("init", 0, 0, FALSE)

\* reg.update(error) at clock reading now
RegUpdate(error, now) ==
    /\ reg' = update(reg, error, now)
    /\ regev' = [RegEvent("update", regev.last, reg'.previous_output, regev.hold)
                    EXCEPT !.error = error, !.now = now]

\* update() with any error
RegUpdateAny ==
    /\ ~regev.hold
    /\ \E e \in Errors, now \in Times : RegUpdate(e, now)
    /\ UNCHANGED ctlvars

\* update() with error 0, once the caller passes nothing else
RegUpdateZero ==
    /\ regev.hold
    /\ \E now \in Times : RegUpdate(0, now)
    /\ UNCHANGED ctlvars

\* the caller starts to pass error 0 on every call
RegHold ==
    /\ ~regev.hold
    /\ regev' = [regev EXCEPT !.op = "hold", !.hold = TRUE]
    /\ UNCHANGED << reg, ctlvars >>

\* reg.reset()
RegReset ==
    /\ ~regev.hold
    /\ \E now \in Times : reg' = reset(reg, now)
    /\ regev' = RegEvent("reset", 0, 0, FALSE)
    /\ UNCHANGED ctlvars

\* the caller assigns the gains and limits, as param_callback does
RegConfigure ==
    /\ ~regev.hold
    /\ \E c \in RegConfigs :
         reg' = [reg EXCEPT !.kp = c.kp, !.ki = c.ki, !.kd = c.kd,
                            !.min_integral = c.int[1], !.max_integral = c.int[2],
                            !.min_output = c.out[1], !.max_output = c.out[2],
                            !.delta = c.delta]
    /\ regev' = [regev EXCEPT !.op = "config"]
    /\ UNCHANGED ctlvars

----------------------------------------------------------------------------
(* The two subscriber callbacks run statement by statement.  rospy runs    *)
(* the callbacks of each subscription on that subscription's own thread,   *)
(* and the node takes no lock: a step of one handler can fall between any  *)
(* two statements of the other.  Each step below is a run of consecutive   *)
(* statements of one handler; joining statements into one step only        *)
(* removes interleavings, every behaviour left is one the node can show.   *)

\* the waypoint entries the planner sends here: they differ in x and in y
ThreadStateMsgs == { [x |-> 0, y |-> 0, yaw |-> 0,   ux |-> 0,  utheta |-> 0],
                     [x |-> 3, y |-> 1, yaw |-> 157, ux |-> 10, utheta |-> 5] }

ThreadStatesMsgs == SeqsUpTo(ThreadStateMsgs, MaxLen)

\* what no step of the two handlers writes
handlerconst == << ctl, shutdown, ev, hist, reg, regev >>

\* states_callback, lines 125-129: self.i = 0; self.states = deque(msg.states)
states_callback_assign(msg) ==
    /\ thr.pcS = "idle"
    /\ i' = 0
    /\ states' = msg
    /\ thr' = [thr EXCEPT !.pcS = "popleft", !.msg = msg]
    /\ UNCHANGED << need_waypoint, odom, waypoint, twist, prev_vel,
                    pid_angular, pid_linear, cmd_vel, cycles, handlerconst >>

\* states_callback, line 131: state = states.popleft(), on the deque object
\* self.states refers to; IndexError ends the handler
states_callback_popleft ==
    /\ thr.pcS = "popleft"
    /\ IF states = << >>
       THEN /\ thr' = [thr EXCEPT !.pcS = "idle", !.msg = << >>]
            /\ UNCHANGED states
       ELSE /\ states' = popleft(states).rest
            /\ thr' = [thr EXCEPT !.pcS = "x", !.state = popleft(states).item]
    /\ UNCHANGED << need_waypoint, odom, waypoint, i, twist, prev_vel,
                    pid_angular, pid_linear, cmd_vel, cycles, handlerconst >>

\* states_callback, line 132: self.waypoint[0] = state.x
states_callback_x ==
    /\ thr.pcS = "x"
    /\ waypoint' = [waypoint EXCEPT ![1] = thr.state.x]
    /\ thr' = [thr EXCEPT !.pcS = "rest"]
    /\ UNCHANGED << need_waypoint, odom, states, i, twist, prev_vel,
                    pid_angular, pid_linear, cmd_vel, cycles, handlerconst >>

\* states_callback, lines 133-138: the other four fields of self.waypoint,
\* then need_waypoint = False
states_callback_rest ==
    /\ thr.pcS = "rest"
    /\ waypoint' = << waypoint[1], thr.state.y, thr.state.yaw, thr.state.ux,
                      thr.state.utheta >>
    /\ need_waypoint' = FALSE
    /\ thr' = [thr EXCEPT !.pcS = "idle", !.msg = << >>, !.state = << >>]
    /\ UNCHANGED << odom, states, i, twist, prev_vel,
                    pid_angular, pid_linear, cmd_vel, cycles, handlerconst >>

\* odom_callback, lines 102-122: store the pose, enter control() unless
\* need_waypoint
odom_callback_store(msg) ==
    /\ thr.pcO = "idle"
    /\ odom' = OdomOf(msg)
    /\ IF need_waypoint
       THEN UNCHANGED << thr, cycles >>
       ELSE /\ cycles < MaxCycles
            /\ cycles' = cycles + 1
            /\ thr' = [thr EXCEPT !.pcO = "x_diff"]
    /\ UNCHANGED << need_waypoint, waypoint, states, i, twist, prev_vel,
                    pid_angular, pid_linear, cmd_vel, handlerconst >>

\* control, line 152: x_diff = self.waypoint[0] - self.odom[0]
control_x_diff ==
    /\ thr.pcO = "x_diff"
    /\ thr' = [thr EXCEPT !.pcO = "y_diff", !.x_diff = waypoint[1] - odom[1]]
    /\ UNCHANGED << need_waypoint, odom, waypoint, states, i, twist, prev_vel,
                    pid_angular, pid_linear, cmd_vel, cycles, handlerconst >>

\* the waypoint position control() has read into x_diff and y_diff
AsRead(xd, yd) == << odom[1] + xd, odom[2] + yd, 0, 0, 0 >>

\* control, lines 153-184: y_diff = self.waypoint[1] - self.odom[1], the
\* errors, the two update() calls (one clock reading), the heading override
control_update ==
    /\ thr.pcO = "y_diff"
    /\ \E now \in NodeTimes :
         LET yd   == waypoint[2] - odom[2]
             wp   == AsRead(thr.x_diff, yd)
             aerr == angular_error(wp, odom)
             lerr == linear_error(wp, odom)
             pa   == update(pid_angular, aerr, now)
             pl   == update(pid_linear, lerr, now)
             lin  == IF MustRotate(aerr, ctl.angular_tolerance)
                     THEN ctl.rotate_lin_vel ELSE pl.previous_output
         IN  /\ pid_angular' = pa
             /\ pid_linear' = pl
             /\ prev_vel' = [linear |-> pl.previous_output,
                             angular |-> pa.previous_output]
             /\ twist' = [linear |-> lin, angular |-> pa.previous_output]
             /\ thr' = [thr EXCEPT !.pcO = "arrive", !.y_diff = yd]
    /\ UNCHANGED << need_waypoint, odom, waypoint, states, i, cmd_vel, cycles,
                    handlerconst >>

\* control, lines 185-187, and get_new_waypoint, lines 141-143: on arrival
\* need_waypoint = True, self.i += 1, state = self.states.popleft();
\* IndexError ends the handler before the publish
control_arrive ==
    /\ thr.pcO = "arrive"
    /\ IF Arrived(AsRead(thr.x_diff, thr.y_diff), odom, ctl.robot_radius)
       THEN /\ need_waypoint' = TRUE
            /\ i' = i + 1
            /\ IF states = << >>
               THEN /\ thr' = [thr EXCEPT !.pcO = "idle", !.x_diff = 0,
                                          !.y_diff = 0]
                    /\ UNCHANGED states
               ELSE /\ states' = popleft(states).rest
                    /\ thr' = [thr EXCEPT !.pcO = "write",
                                          !.popped = popleft(states).item]
       ELSE /\ thr' = [thr EXCEPT !.pcO = "publish"]
            /\ UNCHANGED << need_waypoint, i, states >>
    /\ UNCHANGED << odom, waypoint, twist, prev_vel, pid_angular, pid_linear,
                    cmd_vel, cycles, handlerconst >>

\* get_new_waypoint, lines 144-149: the five fields of self.waypoint, then
\* need_waypoint = False
get_new_waypoint_write ==
    /\ thr.pcO = "write"
    /\ waypoint' = WaypointOf(thr.popped)
    /\ need_waypoint' = FALSE
    /\ thr' = [thr EXCEPT !.pcO = "publish", !.popped = << >>]
    /\ UNCHANGED << odom, states, i, twist, prev_vel, pid_angular, pid_linear,
                    cmd_vel, cycles, handlerconst >>

\* control, line 189: self.pub_cmd_vel.publish(self.twist)
control_publish ==
    /\ thr.pcO = "publish"
    /\ cmd_vel' = << twist >>
    /\ thr' = [thr EXCEPT !.pcO = "idle", !.x_diff = 0, !.y_diff = 0]
    /\ UNCHANGED << need_waypoint, odom, waypoint, states, i, twist, prev_vel,
                    pid_angular, pid_linear, cycles, handlerconst >>

----------------------------------------------------------------------------
(* specifications *)

\* the controller node with each handler run to its end before the next
\* starts; reg is not part of it
Init ==
    /\ CtlInit
    /\ reg = PID(1, 0, 0, -100, 100, 1, 0, 0, 0)
    /\ regev = RegEvent("init", 0, 0, FALSE)

Next ==
    \/ \E msg \in OdomMsgs : odom_callback(msg) /\ UNCHANGED << regvars, thr >>
    \/ \E msg \in StatesMsgs : states_callback(msg) /\ UNCHANGED << regvars, thr >>
    \/ \E config \in Configs : param_callback(config) /\ UNCHANGED << regvars, thr >>
    \/ stop /\ UNCHANGED << regvars, thr >>

Spec == Init /\ [][Next]_vars

\* the odometry and waypoint-list subscriptions of the node, each on its own
\* thread, a statement at a time
NextThreads ==
    \/ \E msg \in ThreadStatesMsgs : states_callback_assign(msg)
    \/ states_callback_popleft
    \/ states_callback_x
    \/ states_callback_rest
    \/ \E msg \in OdomMsgs : odom_callback_store(msg)
    \/ control_x_diff
    \/ control_update
    \/ control_arrive
    \/ get_new_waypoint_write
    \/ control_publish

SpecThreads == Init /\ [][NextThreads]_vars

\* a regulator on its own; the controller is not part of it
InitPID ==
    /\ CtlInit
    /\ odom = << 1, 0, 0, 0, 0 >>
    /\ pid_angular.previous_time = 0
    /\ RegInit

NextPID ==
    \/ RegUpdateAny
    \/ RegUpdateZero
    \/ RegHold
    \/ RegReset
    \/ RegConfigure

\* a caller that passes error 0 on every call keeps calling
SpecPID == InitPID /\ [][NextPID]_vars /\ WF_vars(RegUpdateZero)

----------------------------------------------------------------------------
(* properties of a regulator on its own, checked under SpecPID *)

\* C2: the value an update() returns differs from the value the update
\* before it returned (0 for the first update after construction or reset)
\* by at most max_output_delta, whatever the errors, the time steps and the
\* gains and limits assigned between the calls.
C2_OutputSlew ==
    regev.op = "update" => Abs(regev.last - regev.before) <= reg.delta

\* C2 witness: an update whose return value moved by the full delta from a
\* nonzero value returned before it, with the limits inverted
C2_Witness ==
    /\ regev.op = "update"
    /\ regev.before # 0
    /\ Abs(regev.last - regev.before) = reg.delta
    /\ reg.min_output > reg.max_output

\* C3: after an update() of a regulator whose integral limits are an
\* interval (min_integral <= max_integral), the stored integral lies within
\* [min_integral, max_integral], whatever the errors and time steps.
C3_IntegralClamp ==
    (regev.op = "update" /\ reg.min_integral <= reg.max_integral)
        => (reg.min_integral <= reg.integral /\ reg.integral <= reg.max_integral)

\* C3 witness: an update with nonzero error and a proper interval of limits
C3_Witness ==
    /\ regev.op = "update"
    /\ reg.min_integral < reg.max_integral
    /\ reg.previous_error = << 3 >>
    /\ regev.before # 0

\* the caller passes error 0 on every call to a regulator with ki = kd = 0
ZeroHeld == regev.hold /\ reg.ki = 0 /\ reg.kd = 0

\* the output limits admit the output 0
ZeroAdmitted == reg.min_output <= 0 /\ 0 <= reg.max_output

\* C10 as stated: for a regulator with ki = kd = 0, once every update() is
\* called with error 0 the returned output never grows in absolute value,
\* eventually is 0 and then stays 0.
C10_Original ==
    /\ [][(ZeroHeld /\ regev'.hold)
            => Abs(reg'.previous_output) <= Abs(reg.previous_output)]_vars
    /\ [][(ZeroHeld /\ regev'.hold /\ reg.previous_output = 0)
            => reg'.previous_output = 0]_vars
    /\ (ZeroHeld ~> (reg.previous_output = 0))

\* C10 amended: the same, for a regulator whose output limits admit 0
\* (min_output <= 0 <= max_output).
C10_ZeroErrorConverges ==
    /\ [][(ZeroHeld /\ ZeroAdmitted /\ regev'.hold)
            => Abs(reg'.previous_output) <= Abs(reg.previous_output)]_vars
    /\ [][(ZeroHeld /\ ZeroAdmitted /\ regev'.hold /\ reg.previous_output = 0)
            => reg'.previous_output = 0]_vars
    /\ ((ZeroHeld /\ ZeroAdmitted) ~> (reg.previous_output = 0))

\* C10 witness: under sustained zero error the output has come down to 0
\* from a nonzero value
C10_Witness ==
    /\ ZeroHeld /\ ZeroAdmitted
    /\ regev.op = "update"
    /\ regev.before # 0
    /\ reg.previous_output = 0

----------------------------------------------------------------------------
(* properties of the controller node, checked under Spec *)

\* the stop command
StopCommand == [linear |-> 0, angular |-> 0]

\* the step is a pose update that found the controller TRACKING
TrackingPoseUpdate == ev'.op = "odom" /\ ~need_waypoint

\* the distance from pose od to waypoint wp is strictly less than r
WithinRadius(wp, od, r) ==
    (wp[1] - od[1]) * (wp[1] - od[1]) + (wp[2] - od[2]) * (wp[2] - od[2]) < r * r

\* C1: a pose update while TRACKING that detects arrival with no waypoint
\* left in the queue ends AWAITING_WAYPOINT, emits the stop command (0, 0)
\* for that cycle and lets no fault out of the handler.
C1_ExhaustionStops ==
    [][(TrackingPoseUpdate
          /\ WithinRadius(waypoint, odom', ctl.robot_radius)
          /\ states = << >>)
        => (/\ need_waypoint'
            /\ ev'.published
            /\ cmd_vel' = << StopCommand >>
            /\ ~ev'.raised)]_vars

\* C4: a control cycle that emits a command emits rotate_lin_vel as linear
\* velocity when |angular_error| > angular_tolerance and the linear
\* regulator's output of the cycle otherwise, and the angular regulator's
\* output of the cycle as angular velocity.
C4_HeadingOverride ==
    [][(TrackingPoseUpdate /\ ev'.published)
        => LET aerr == angular_error(waypoint, odom')
           IN  /\ cmd_vel'[1].angular = pid_angular'.previous_output
               /\ cmd_vel'[1].linear =
                    IF Abs(aerr) > ctl.angular_tolerance
                    THEN ctl.rotate_lin_vel
                    ELSE pid_linear'.previous_output]_vars

\* C4 witness: a cycle has emitted rotate_lin_vel in place of a different
\* linear regulator output, next to a nonzero angular output
C4_Witness ==
    /\ ev.op = "odom" /\ ev.published
    /\ cmd_vel[1].linear = ctl.rotate_lin_vel
    /\ pid_linear.previous_output # ctl.rotate_lin_vel
    /\ pid_linear.previous_output # 0
    /\ cmd_vel[1].angular # 0

\* C5: a pose update while TRACKING attempts an advance of the queue if and
\* only if the distance to the current waypoint is strictly less than the
\* arrival radius, and attempts at most one; an attempt on a non-empty queue
\* leaves the controller TRACKING the former front of the queue, with the
\* queue shorter by exactly that entry.
C5_ArrivalAdvance ==
    [][TrackingPoseUpdate
        => LET near == WithinRadius(waypoint, odom', ctl.robot_radius)
           IN  /\ (i' = i + 1) <=> near
               /\ (i' = i) <=> ~near
               /\ (near /\ states # << >>)
                    => /\ ~need_waypoint'
                       /\ waypoint' = WaypointOf(Head(states))
                       /\ states' = Tail(states)
               /\ ~near => UNCHANGED << need_waypoint, waypoint, states >>]_vars

\* C5 witness: a cycle has advanced to the second waypoint of a list and is
\* still TRACKING
C5_Witness ==
    /\ ev.op = "odom" /\ ev.ran /\ ev.published
    /\ i = 1
    /\ ~need_waypoint
    /\ states = << >>

\* C6: a pose update while AWAITING_WAYPOINT emits nothing, runs neither
\* regulator and changes nothing but the stored pose and twist.
C6_IdlePoseUpdate ==
    [][(ev'.op = "odom" /\ need_waypoint)
        => /\ ~ev'.published
           /\ ~ev'.ran
           /\ UNCHANGED << need_waypoint, waypoint, states, i, twist, prev_vel,
                           ctl, pid_angular, pid_linear, cmd_vel >>]_vars

\* C6 witness: a pose update has been received after the queue was
\* exhausted, with a command emitted earlier
C6_Witness ==
    /\ ev.op = "odom" /\ ~ev.ran
    /\ need_waypoint
    /\ i >= 1
    /\ cmd_vel # << >>

\* C7: stop, in whatever state it is invoked, emits the command (0, 0).
C7_StopEmitsZero ==
    ev.op = "stop" => (ev.published /\ cmd_vel = << StopCommand >>)

\* C7 witness: stop has run while TRACKING with both regulators' outputs
\* nonzero
C7_Witness ==
    /\ ev.op = "stop"
    /\ ~need_waypoint
    /\ pid_angular.previous_output # 0
    /\ pid_linear.previous_output # 0

\* the gains, limits and tolerances in use
ActiveConfig ==
    << PIDConfig(pid_angular), PIDConfig(pid_linear),
       ctl.angular_tolerance, ctl.robot_radius, ctl.rotate_lin_vel >>

\* C8: a configuration update with an inverted limit pair on either axis is
\* rejected as an error and leaves every gain, limit and tolerance in use
\* unchanged.
C8_InvertedRejected ==
    [][(ev'.op = "param" /\ ev'.inverted)
        => (ev'.raised /\ UNCHANGED ActiveConfig)]_vars

\* C9: a configuration update emits nothing and leaves both regulators'
\* state, the current waypoint, the queue, the awaiting flag and the last
\* emitted command unchanged; the update() calls of the next control cycle
\* compute with the gains and limits then in place.
C9_ConfigFrame ==
    /\ [][ev'.op = "param"
            => /\ ~ev'.published
               /\ UNCHANGED << PIDState(pid_angular), PIDState(pid_linear),
                               waypoint, states, need_waypoint, cmd_vel >>]_vars
    /\ [][TrackingPoseUpdate
            => \E now \in NodeTimes :
                 /\ pid_angular' = update(pid_angular, angular_error(waypoint, odom'), now)
                 /\ pid_linear' = update(pid_linear, linear_error(waypoint, odom'), now)]_vars

\* C9 witness: a configuration update has arrived mid-run, after a command
\* was emitted and with regulator state built up, and changed kp
C9_Witness ==
    /\ ev.op = "param"
    /\ ~need_waypoint
    /\ cmd_vel # << >>
    /\ pid_angular.previous_output # 0
    /\ pid_angular.previous_error # None
    /\ pid_angular.kp = 2

----------------------------------------------------------------------------
(* further properties of a regulator on its own, checked under SpecPID *)

\* the step is an update() of reg
RegUpdateStep == regev'.op = "update"

\* C12: after every update() with error e and time step dt the stored
\* integral equals clamp(old integral + e * dt, min_integral, max_integral).
C12_IntegralAccumulates ==
    [][RegUpdateStep
        => reg'.integral =
             Clip(reg.integral + regev'.error * (regev'.now - reg.previous_time),
                  reg.min_integral, reg.max_integral)]_vars

\* the step is an update() whose time step is <= 0, or the first update()
\* since construction or reset
LateOrFirstUpdate ==
    /\ RegUpdateStep
    /\ \/ regev'.now - reg.previous_time <= 0
       \/ reg.previous_error = None

\* C16: an update() whose time step is <= 0 (and likewise the first update
\* after construction or reset) returns the proportional plus integral terms
\* with no derivative term, clamped to the output limits and then to the slew
\* limit; the integral is clamped; afterwards previous_time is the clock
\* reading, previous_error the error and previous_output the returned value.
C16_NoDerivativeOnLateStep ==
    [][LateOrFirstUpdate
        => /\ reg'.previous_output =
                Clip(Clip(reg.kp * regev'.error + reg.ki * reg'.integral,
                          reg.min_output, reg.max_output),
                     reg.previous_output - reg.delta,
                     reg.previous_output + reg.delta)
           /\ (reg.min_integral <= reg.max_integral)
                => (reg.min_integral <= reg'.integral
                    /\ reg'.integral <= reg.max_integral)
           /\ reg'.previous_time = regev'.now
           /\ reg'.previous_error = << regev'.error >>
           /\ reg'.previous_output = regev'.last]_vars

\* C16 witness: an update at the lowest clock reading (so its time step was
\* <= 0) of a regulator with kd # 0, after an earlier update, with nonzero
\* error and a changed output
C16_Witness ==
    /\ regev.op = "update"
    /\ regev.now = 0 /\ reg.previous_time = 0
    /\ reg.kd # 0
    /\ regev.error # 0
    /\ regev.before # 0
    /\ regev.last # regev.before

\* C17 as stated: every value an update() returns lies within the output
\* limits in force, for limits with min_output <= max_output.
C17_Original ==
    (regev.op = "update" /\ reg.min_output <= reg.max_output)
        => (reg.min_output <= regev.last /\ regev.last <= reg.max_output)

\* C17 amended: the value an update() returns lies within the output limits
\* in force (min_output <= max_output) whenever the previous output is no
\* farther than max_output_delta from them.
C17_OutputWithinLimits ==
    [][(/\ RegUpdateStep
        /\ reg.min_output <= reg.max_output
        /\ reg.min_output - reg.delta <= reg.previous_output
        /\ reg.previous_output <= reg.max_output + reg.delta)
        => (reg.min_output <= reg'.previous_output
            /\ reg'.previous_output <= reg.max_output)]_vars

\* C17 witness: an update whose raw output exceeded max_output has returned
\* max_output
C17_Witness ==
    /\ regev.op = "update"
    /\ reg.min_output < reg.max_output
    /\ reg.kp * regev.error + reg.ki * reg.integral > reg.max_output
    /\ regev.last = reg.max_output
    /\ regev.before # regev.last

----------------------------------------------------------------------------
(* further properties of the controller, checked under Spec *)

\* the queue has been exhausted and no list has arrived since
Exhausted == need_waypoint /\ i >= 1

\* the step is the arrival of a non-empty list
ListArrival == ev'.op = "states" /\ ~ev'.raised

\* C11: once a queue-exhaustion event has happened the most recently emitted
\* command is the stop command (0, 0) until the next list arrives; a
\* non-empty list received then makes the controller track the list's first
\* waypoint, and a pose update that follows the list runs a control cycle
\* and emits a command.
C11_RecoversAfterExhaustion ==
    [][/\ Exhausted' => cmd_vel' = << StopCommand >>
       /\ (Exhausted /\ ListArrival)
            => /\ ~need_waypoint'
               /\ \E msg \in StatesMsgs :
                    /\ msg # << >>
                    /\ waypoint' = WaypointOf(msg[1])
                    /\ states' = Tail(msg)
       /\ (ev.op = "states" /\ ~ev.raised /\ ev'.op = "odom")
            => (ev'.ran /\ ev'.published)]_vars

C18_EmptyListRejected ==
    [][(ev'.op = "states" /\ ev'.raised)
        => UNCHANGED << waypoint, states, i, need_waypoint >>]_vars

\* C19: after a configuration update without an inverted pair every
\* configurable field in use equals the supplied value: the gains, output
\* limits, integral limits and slew delta of both regulators, the heading
\* tolerance, the arrival radius and the rotate-in-place speed.
C19_ConfigApplied ==
    [][(ev'.op = "param" /\ ~ev'.inverted)
        => LET c == ev'.config
           IN  /\ ctl'.angular_tolerance = c.angular_tolerance
               /\ ctl'.robot_radius = c.robot_radius
               /\ ctl'.rotate_lin_vel = c.rotate_lin_vel
               /\ PIDConfig(pid_angular')
                    = << c.angular_kp, c.angular_ki, c.angular_kd,
                         c.angular_min_output, c.angular_max_output,
                         c.angular_delta,
                         c.angular_min_integral, c.angular_max_integral >>
               /\ PIDConfig(pid_linear')
                    = << c.linear_kp, c.linear_ki, c.linear_kd,
                         c.linear_min_output, c.linear_max_output,
                         c.linear_delta,
                         c.linear_min_integral, c.linear_max_integral >>]_vars

----------------------------------------------------------------------------
(* the handlers a statement at a time, checked under SpecThreads *)

\* control() has read the x and the y of one and the same waypoint
WholeRead ==
    \E w \in ThreadStateMsgs :
        /\ thr.x_diff = w.x - odom[1]
        /\ thr.y_diff = w.y - odom[2]

\* C15: under every interleaving of the list handler and the pose handler,
\* a control cycle computes its errors from the x and y of one waypoint,
\* never from a partially written one, and the list handler pops the first
\* entry of the list it has just stored: no queue advance of a control cycle
\* takes an entry from the deque in between.
C15_HandlersSerialized ==
    /\ thr.pcO = "arrive" => WholeRead
    /\ thr.pcS \in {"x", "rest"} => thr.state = thr.msg[1]

====
